---- MODULE Spec2Model ----
(***************************************************************************)
(* Model of src/logic/speech2text_speechmatics.py: the Speechmatics        *)
(* configuration (SpeechmaticsConfig), the REST client                     *)
(* (SpeechmaticsClient) and the transcription run                          *)
(* (SpeechmaticsSpeechToText.transcript_audio).                            *)
(*                                                                         *)
(* One run of transcript_audio is a sequential process; pc is its          *)
(* position.  The remote service, the file system and the configuration    *)
(* file are the environment: their answers are drawn with \E.              *)
(***************************************************************************)
EXTENDS Integers, Sequences, FiniteSets, TLC

VARIABLES
    pc,         \* position of transcript_audio
    config,     \* the SpeechmaticsConfig object (line 184), or NoConfig
    job_id,     \* local job_id of transcript_audio (line 190)
    details,    \* local details of transcript_audio (lines 193, 200)
    job_type,   \* local job_type of transcript_audio (lines 212-215)
    output,     \* local output of transcript_audio (line 216)
    result,     \* the bytes transcript_audio returns (line 220)
    error,      \* the exception that left transcript_audio, or NoError
    handles,    \* file objects opened by job_post that are still open
    posted,     \* the request job_post sent (line 103), or NoRequest
    fetched,    \* the parameters and url of the get_output request (line 163)
    trace,      \* every client call and every sleep of the run, in order
    source,     \* the configuration file the run read (line 184)
    served      \* number of non-terminal details records the service has sent

vars == <<pc, config, job_id, details, job_type, output, result, error,
          handles, posted, fetched, trace, source, served>>

----------------------------------------------------------------------------
(* Bounds of the environment.                                              *)

\* The service answers at most MaxPolls details fetches with a non-terminal
\* status; after that it reports a terminal status (or fails).
MaxPolls == 2

----------------------------------------------------------------------------
(* Python values.  A str is the sequence of its characters; an int is the  *)
(* sequence of its decimal digits.                                         *)

None == [t |-> "NoneType", s |-> <<>>]

Str(chars) == [t |-> "str", s |-> chars]

PyInt(digits) == [t |-> "int", s |-> digits]

\* Python truthiness of None and of a str: bool(None) is False, bool("") is
\* False, every other str is True.
Truthy(v) == v.t = "str" /\ v.s # <<>>

\* str(v) of an int or of a str (lines 141, 162).
PyStr(v) == Str(v.s)

\* An exception: its class, message template, the HTTP code formatted into
\* the message and the code-specific hint appended to it.
Exc(type, text, code, hint) ==
    [type |-> type, text |-> text, code |-> code, hint |-> hint]

NoError == Exc("none", "", 0, "")

----------------------------------------------------------------------------
(* SpeechmaticsConfig (lines 11-41).                                       *)

\* The parameters of SpeechmaticsConfig.__init__ (line 12).
Params == {"userId", "apiAuthToken", "language", "format", "text",
           "callback_url", "notification", "notification_email"}

\* The parameters without a default value (line 12).
Required == {"userId", "apiAuthToken"}

\* The default values of the signature (line 12).
DefaultOf(p) ==
    CASE p = "language" -> Str(<<"e", "n", "-", "U", "S">>)
      [] p = "format"   -> Str(<<"t", "x", "t">>)
      [] OTHER          -> None

NoConfig == [p \in {} |-> None]

\* Binding of the keyword arguments cls(**loaded_json) to the parameters:
\* absent parameters take their default.
BindArgs(kwargs) ==
    [p \in Params |-> IF p \in DOMAIN kwargs THEN kwargs[p] ELSE DefaultOf(p)]

\* The body of __init__ (lines 14-33) on bound arguments: the four checks in
\* source order, the first falsy value raises.
ConfigBodyMissingFormatCheck(a) ==
    IF ~Truthy(a["userId"])
      THEN [ok |-> FALSE, cfg |-> NoConfig,
            err |-> Exc("Exception", "required userId is empty", 0, "")]
    ELSE IF ~Truthy(a["apiAuthToken"])
      THEN [ok |-> FALSE, cfg |-> NoConfig,
            err |-> Exc("Exception", "required apiAuthToken is empty", 0, "")]
    ELSE IF ~Truthy(a["language"])
      THEN [ok |-> FALSE, cfg |-> NoConfig,
            err |-> Exc("Exception", "required language is empty", 0, "")]
    ELSE [ok |-> TRUE, cfg |-> a, err |-> NoError]

ConfigBody(a) ==
    IF ~Truthy(a["userId"])
      THEN [ok |-> FALSE, cfg |-> NoConfig,
            err |-> Exc("Exception", "required userId is empty", 0, "")]
    ELSE IF ~Truthy(a["apiAuthToken"])
      THEN [ok |-> FALSE, cfg |-> NoConfig,
            err |-> Exc("Exception", "required apiAuthToken is empty", 0, "")]
    ELSE IF ~Truthy(a["language"])
      THEN [ok |-> FALSE, cfg |-> NoConfig,
            err |-> Exc("Exception", "required language is empty", 0, "")]
    ELSE IF ~Truthy(a["format"])
      THEN [ok |-> FALSE, cfg |-> NoConfig,
            err |-> Exc("Exception", "required format is empty", 0, "")]
    ELSE [ok |-> TRUE, cfg |-> a, err |-> NoError]

\* SpeechmaticsConfig that accepts and drops unknown keywords (**kwargs).
SpeechmaticsConfigIgnoresUnknown(kwargs) ==
    IF ~(Required \subseteq DOMAIN kwargs)
      THEN [ok |-> FALSE, cfg |-> NoConfig,
            err |-> Exc("TypeError", "missing required positional argument", 0, "")]
    ELSE ConfigBody(BindArgs(kwargs))

\* SpeechmaticsConfig(**kwargs): an unexpected keyword or a missing required
\* argument is a TypeError of the call itself, before the body runs.
SpeechmaticsConfig(kwargs) ==
    IF ~(DOMAIN kwargs \subseteq Params)
      THEN [ok |-> FALSE, cfg |-> NoConfig,
            err |-> Exc("TypeError", "unexpected keyword argument", 0, "")]
    ELSE IF ~(Required \subseteq DOMAIN kwargs)
      THEN [ok |-> FALSE, cfg |-> NoConfig,
            err |-> Exc("TypeError", "missing required positional argument", 0, "")]
    ELSE ConfigBody(BindArgs(kwargs))

\* from_json (lines 36-41): open the file, json.load it, construct.  file is
\* [state, content]: state says whether the file opens and parses.
from_json(file) ==
    CASE file.state = "unreadable" ->
           [ok |-> FALSE, cfg |-> NoConfig,
            err |-> Exc("IOError", "cannot open configuration file", 0, "")]
      [] file.state = "not_json" ->
           [ok |-> FALSE, cfg |-> NoConfig,
            err |-> Exc("ValueError", "configuration file is not JSON", 0, "")]
      [] OTHER -> SpeechmaticsConfig(file.content)

----------------------------------------------------------------------------
(* SpeechmaticsClient (lines 58-171).                                      *)

\* A client object (lines 64-67): the user id and the token; base_url keeps
\* its default.
SpeechmaticsClient(api_user_id, api_token) ==
    [api_user_id |-> api_user_id, api_token |-> api_token]

\* The only status code the three calls accept (lines 104, 143, 164).
HTTP_OK == 200

NoRequest == [p \in {} |-> None]

\* The value of details before the first fetch.
NoDetails == [job_status |-> "", job_type |-> "", check_wait |-> 0]

\* Position of the last "=" at or after i, 0 when there is none: the split of
\* rsplit('=', 1).
RECURSIVE LastEq(_, _)
LastEq(chars, i) ==
    IF i > Len(chars) THEN 0
    ELSE LET r == LastEq(chars, i + 1) IN
         IF r # 0 THEN r ELSE IF chars[i] = "=" THEN i ELSE 0

\* Position of the first "=" in a sequence of characters, 0 when there is none.
RECURSIVE FirstEq(_, _)
FirstEq(chars, i) ==
    IF i > Len(chars) THEN 0
    ELSE IF chars[i] = "=" THEN i
    ELSE FirstEq(chars, i + 1)

\* Lines 92-94: data = {"model": lang}, split at the first "=" into model and
\* version.
ModelData(lang) ==
    LET k == FirstEq(lang.s, 1) IN
    IF k = 0
      THEN [f \in {"model"} |-> lang]
      ELSE [f \in {"model", "version"} |->
              IF f = "model" THEN Str(SubSeq(lang.s, 1, k - 1))
                             ELSE Str(SubSeq(lang.s, k + 1, Len(lang.s)))]

\* NotificationData with the e-mail test nested under `if notification:`.
NotificationDataNested(callback_url, notification, notification_email) ==
    LET keys == (IF Truthy(notification) THEN {"notification"} ELSE {})
                \cup (IF Truthy(notification)
                         /\ notification = Str(<<"c", "a", "l", "l", "b", "a", "c", "k">>)
                      THEN {"callback"} ELSE {})
                \cup (IF Truthy(notification) /\ Truthy(notification_email)
                      THEN {"notification_email_address"} ELSE {})
    IN [f \in keys |->
          CASE f = "notification" -> notification
            [] f = "callback"     -> callback_url
            [] OTHER              -> notification_email]

\* Lines 96-101: the notification fields added to data.
NotificationData(callback_url, notification, notification_email) ==
    LET keys == (IF Truthy(notification) THEN {"notification"} ELSE {})
                \cup (IF Truthy(notification)
                         /\ notification = Str(<<"c", "a", "l", "l", "b", "a", "c", "k">>)
                      THEN {"callback"} ELSE {})
                \cup (IF Truthy(notification_email)
                      THEN {"notification_email_address"} ELSE {})
    IN [f \in keys |->
          CASE f = "notification" -> notification
            [] f = "callback"     -> callback_url
            [] OTHER              -> notification_email]

\* The form fields of the POST (lines 92-101).
PostData(lang, callback_url, notification, notification_email) ==
    LET m == ModelData(lang)
        n == NotificationData(callback_url, notification, notification_email)
    IN [f \in DOMAIN m \cup DOMAIN n |-> IF f \in DOMAIN m THEN m[f] ELSE n[f]]

\* The code-specific part of the POST error message (lines 110-129).
PostHint(code) ==
    CASE code = 400 -> "malformed arguments, missing data file, unsupported language"
      [] code = 401 -> "invalid user id or authentication token"
      [] code = 403 -> "insufficient credit, unknown user id, incorrect token"
      [] code = 429 -> "too many POSTs in a short period of time"
      [] code = 503 -> "system temporarily unavailable or overloaded"
      [] OTHER      -> ""

\* OpenFiles that goes on without the text file when it does not open.
OpenFilesSkipsText(audio, text, env) ==
    IF ~env.audio_ok
      THEN [ok |-> FALSE, files |-> NoRequest, opens |-> <<"failed">>,
            err |-> Exc("IOError", "cannot open audio file", 0, "")]
    ELSE IF ~Truthy(text)
      THEN [ok |-> TRUE, files |-> [f \in {"data_file"} |-> audio],
            opens |-> <<"opened">>, err |-> NoError]
    ELSE IF ~env.text_ok
      THEN [ok |-> TRUE, files |-> [f \in {"data_file"} |-> audio],
            opens |-> <<"opened", "failed">>, err |-> NoError]
    ELSE [ok |-> TRUE,
          files |-> [f \in {"data_file", "text_file"} |->
                       IF f = "data_file" THEN audio ELSE text],
          opens |-> <<"opened", "opened">>, err |-> NoError]

\* Lines 79-90: files = {'data_file': open(audio)}, and with a text also
\* files['text_file'] = open(text); an IOError of open() is logged and
\* re-raised.  files holds the file objects opened so far.
OpenFiles(audio, text, env) ==
    IF ~env.audio_ok
      THEN [ok |-> FALSE, files |-> NoRequest, opens |-> <<"failed">>,
            err |-> Exc("IOError", "cannot open audio file", 0, "")]
    ELSE IF ~Truthy(text)
      THEN [ok |-> TRUE, files |-> [f \in {"data_file"} |-> audio],
            opens |-> <<"opened">>, err |-> NoError]
    ELSE IF ~env.text_ok
      THEN [ok |-> FALSE, files |-> [f \in {"data_file"} |-> audio],
            opens |-> <<"opened", "failed">>,
            err |-> Exc("IOError", "cannot open text file", 0, "")]
    ELSE [ok |-> TRUE,
          files |-> [f \in {"data_file", "text_file"} |->
                       IF f = "data_file" THEN audio ELSE text],
          opens |-> <<"opened", "opened">>, err |-> NoError]

\* job_post (lines 69-132).  env is what the file system and the service do:
\* audio_ok / text_ok say whether open() succeeds, code and body are the HTTP
\* response, id the "id" field of a well-formed body.
\* The result names the file objects the call opened: job_post never closes
\* one (there is no close() and no with-block in lines 79-132).
job_post(self, audio, lang, text, callback_url, notification, notification_email, env) ==
    LET url    == [user |-> self.api_user_id, job |-> None, leaf |-> "jobs"]
        params == [f \in {"auth_token"} |-> self.api_token]
        o      == OpenFiles(audio, text, env)
        data   == PostData(lang, callback_url, notification, notification_email)
        req    == [url |-> url, params |-> params, data |-> data, files |-> o.files]
    IN
    IF ~o.ok
      THEN [ok |-> FALSE, value |-> None, request |-> NoRequest,
            opened |-> DOMAIN o.files, opens |-> o.opens, sent |-> FALSE,
            err |-> o.err]
    ELSE IF env.code # HTTP_OK
      THEN [ok |-> FALSE, value |-> None, request |-> req,
            opened |-> DOMAIN o.files, opens |-> o.opens, sent |-> TRUE,
            err |-> Exc("SpeechmaticsError", "Attempt to POST job failed with code",
                        env.code, PostHint(env.code))]
    ELSE IF env.body = "not_json"
      THEN [ok |-> FALSE, value |-> None, request |-> req,
            opened |-> DOMAIN o.files, opens |-> o.opens, sent |-> TRUE,
            err |-> Exc("ValueError", "response is not JSON", 0, "")]
    ELSE IF env.body = "no_key"
      THEN [ok |-> FALSE, value |-> None, request |-> req,
            opened |-> DOMAIN o.files, opens |-> o.opens, sent |-> TRUE,
            err |-> Exc("KeyError", "id", 0, "")]
    ELSE [ok |-> TRUE, value |-> env.id, request |-> req,
          opened |-> DOMAIN o.files, opens |-> o.opens, sent |-> TRUE,
          err |-> NoError]

\* job_details (lines 134-149).  env: code and body of the response, job the
\* "job" sub-record of a well-formed body.
job_details(self, id, env) ==
    LET url == [user |-> self.api_user_id, job |-> PyStr(id), leaf |-> ""] IN
    IF env.code # HTTP_OK
      THEN [ok |-> FALSE, value |-> NoDetails, url |-> url,
            err |-> Exc("SpeechmaticsError", "Attempt to GET job details failed with code",
                        env.code, "")]
    ELSE IF env.body = "not_json"
      THEN [ok |-> FALSE, value |-> NoDetails, url |-> url,
            err |-> Exc("ValueError", "response is not JSON", 0, "")]
    ELSE IF env.body = "no_key"
      THEN [ok |-> FALSE, value |-> NoDetails, url |-> url,
            err |-> Exc("KeyError", "job", 0, "")]
    ELSE [ok |-> TRUE, value |-> env.job, url |-> url, err |-> NoError]

\* OutputParams that ignores frmat and always asks for formatted output.
OutputParamsIgnoresFlag(self, frmat, kind) ==
    LET keys == {"auth_token"}
                \cup (IF kind = "transcript" THEN {"format"} ELSE {})
                \cup (IF kind = "alignment" THEN {"tags"} ELSE {})
    IN [f \in keys |->
          CASE f = "auth_token" -> self.api_token
            [] f = "format"     -> Str(<<"t", "x", "t">>)
            [] OTHER            -> Str(<<"o", "n", "e", "_", "p", "e", "r", "_",
                                         "l", "i", "n", "e">>)]

\* OutputParams that sends the configured format value as the format.
OutputParamsSendsValue(self, frmat, kind) ==
    LET keys == {"auth_token"}
                \cup (IF Truthy(frmat) /\ kind = "transcript" THEN {"format"} ELSE {})
                \cup (IF Truthy(frmat) /\ kind = "alignment" THEN {"tags"} ELSE {})
    IN [f \in keys |->
          CASE f = "auth_token" -> self.api_token
            [] f = "format"     -> frmat
            [] OTHER            -> Str(<<"o", "n", "e", "_", "p", "e", "r", "_",
                                         "l", "i", "n", "e">>)]

\* The query parameters of get_output (lines 156-160).
OutputParams(self, frmat, kind) ==
    LET keys == {"auth_token"}
                \cup (IF Truthy(frmat) /\ kind = "transcript" THEN {"format"} ELSE {})
                \cup (IF Truthy(frmat) /\ kind = "alignment" THEN {"tags"} ELSE {})
    IN [f \in keys |->
          CASE f = "auth_token" -> self.api_token
            [] f = "format"     -> Str(<<"t", "x", "t">>)
            [] OTHER            -> Str(<<"o", "n", "e", "_", "p", "e", "r", "_",
                                         "l", "i", "n", "e">>)]

\* get_output that returns the body without looking at the status code.
get_outputNoStatusCheck(self, id, frmat, kind, env) ==
    [ok |-> TRUE, value |-> env.text,
     request |-> [url |-> [user |-> self.api_user_id, job |-> PyStr(id), leaf |-> kind],
                  params |-> OutputParams(self, frmat, kind)],
     err |-> NoError]

\* get_output (lines 151-171).  env: code and text of the response; text is
\* request.text, the body decoded as UTF-8 (a sequence of code points).
get_output(self, id, frmat, kind, env) ==
    LET req == [url |-> [user |-> self.api_user_id, job |-> PyStr(id), leaf |-> kind],
                params |-> OutputParams(self, frmat, kind)]
    IN
    IF env.code = HTTP_OK
      THEN [ok |-> TRUE, value |-> env.text, request |-> req, err |-> NoError]
      ELSE [ok |-> FALSE, value |-> <<>>, request |-> req,
            err |-> Exc("SpeechmaticsError", "Attempt to GET job details failed with code",
                        env.code, "")]

----------------------------------------------------------------------------
(* str.encode('utf-8') (line 220).                                         *)

\* The UTF-8 bytes of one code point.
EncodePoint(c) ==
    IF c < 128 THEN <<c>>
    ELSE IF c < 2048 THEN <<192 + (c \div 64), 128 + (c % 64)>>
    ELSE IF c < 65536
      THEN <<224 + (c \div 4096), 128 + ((c \div 64) % 64), 128 + (c % 64)>>
    ELSE <<240 + (c \div 262144), 128 + ((c \div 4096) % 64),
           128 + ((c \div 64) % 64), 128 + (c % 64)>>

RECURSIVE EncodeUtf8(_)
EncodeUtf8(text) ==
    IF text = <<>> THEN <<>>
    ELSE EncodePoint(Head(text)) \o EncodeUtf8(Tail(text))

----------------------------------------------------------------------------
(* The environment of one run.                                             *)

U1 == Str(<<"u", "1">>)
T1 == Str(<<"t", "1">>)
Empty == Str(<<>>)
Callback == Str(<<"c", "a", "l", "l", "b", "a", "c", "k">>)
Email == Str(<<"e", "m", "a", "i", "l">>)
Url == Str(<<"h", "t", "t", "p", ":", "/", "/", "c", "b">>)
Addr == Str(<<"a", "@", "b">>)
TextRef == Str(<<"r", "e", "f", ".", "t", "x", "t">>)
AudioRef == Str(<<"a", ".", "m", "p", "3">>)
LangVersion == Str(<<"f", "r", "=", "2">>)
LangTwoEq == Str(<<"a", "=", "b", "=", "c">>)
FormatJson == Str(<<"j", "s", "o", "n">>)

\* Contents of the configuration file the runs are checked with: objects that
\* load, and objects that fail each check of the constructor.
RunContents ==
    { [userId |-> U1, apiAuthToken |-> T1],
      [userId |-> U1, apiAuthToken |-> T1, language |-> LangVersion,
       format |-> FormatJson, text |-> TextRef, callback_url |-> Url,
       notification |-> Callback, notification_email |-> Addr],
      [userId |-> U1, apiAuthToken |-> T1, text |-> Empty,
       notification |-> Email, callback_url |-> Url],
      [userId |-> Empty, apiAuthToken |-> T1],
      [userId |-> U1, apiAuthToken |-> None],
      [userId |-> U1, apiAuthToken |-> T1, language |-> Empty],
      [userId |-> U1, apiAuthToken |-> T1, format |-> None],
      [apiAuthToken |-> T1],
      [userId |-> U1, apiAuthToken |-> T1, comment |-> Empty] }

\* A key that the JSON object does not hold.
Absent == [t |-> "absent", s |-> <<>>]

\* Every JSON object over the four validated fields, each absent, null, empty
\* or non-empty.
ValidatedChoices ==
    [userId : {Absent, None, Empty, U1}, apiAuthToken : {Absent, None, Empty, T1},
     language : {Absent, None, Empty, LangTwoEq},
     format : {Absent, None, Empty, FormatJson}]

ValidatedContents ==
    { [p \in {q \in DOMAIN c : c[q] # Absent} |-> c[p]] : c \in ValidatedChoices }

ConfigFiles ==
    { [state |-> "unreadable", content |-> NoConfig],
      [state |-> "not_json", content |-> NoConfig] }
    \cup { [state |-> "ok", content |-> c] : c \in RunContents \cup ValidatedContents }

NoFile == [state |-> "unread", content |-> NoConfig]

JobIds == { PyInt(<<"7">>), Str(<<"4", "2">>) }

PostCodes == {200, 400, 401, 403, 429, 503, 418}

GetCodes == {200, 404, 503}

Bodies == {"json", "no_key", "not_json"}

PostEnvs ==
    [audio_ok : BOOLEAN, text_ok : BOOLEAN, code : PostCodes, body : Bodies,
     id : JobIds]

\* The statuses that end the polling loop (line 195).
TerminalStatuses == {"done", "expired", "unsupported_file_format", "could_not_align"}

\* Statuses the service reports for a job in progress, and one the client
\* does not know.
OtherStatuses == {"running", "unknown_status"}

JobTypes == {"transcription", "alignment", "other_type"}

Waits == {2, 5}

JobRecords(statuses) ==
    [job_status : statuses, job_type : JobTypes, check_wait : Waits]

\* The answers the service may give to a details fetch: a non-terminal status
\* only while it has given fewer than MaxPolls of them.
DetailsEnvs ==
    [code : GetCodes, body : Bodies,
     job : JobRecords(IF served < MaxPolls
                        THEN TerminalStatuses \cup OtherStatuses
                        ELSE TerminalStatuses)]

\* Texts the service returns: empty, ASCII, and one with code points of one,
\* two, three and four UTF-8 bytes.
Texts == { <<>>, <<104, 105>>, <<97, 233, 8364, 128512>> }

OutputEnvs == [code : GetCodes, text : Texts]

\* One entry of trace: a call of a client method, or a sleep.  job_id is the
\* id job_post returned or the id argument of the other two calls, path the
\* job segment of the url, secs the length of a sleep, sent whether an HTTP
\* request went out, code the status of its response, status and wait the
\* job_status and check_wait of the record a successful job_details returned,
\* text what a successful get_output returned, err what the call raised,
\* body the shape of the body json.loads was given (lines 105, 144), opens the
\* outcomes of the open() calls of job_post in order (lines 80, 87).
NoEvent ==
    [op |-> "", job_id |-> None, path |-> None, secs |-> 0, sent |-> FALSE,
     code |-> 0, status |-> "", wait |-> 0, text |-> <<>>, err |-> NoError,
     body |-> "", opens |-> <<>>]

----------------------------------------------------------------------------
(* SpeechmaticsSpeechToText.transcript_audio (lines 181-220).              *)

\* self.full_path (line 175).
full_path == AudioRef

\* client = SpeechmaticsClient(config.userId, config.apiAuthToken) (line 188).
Client == SpeechmaticsClient(config["userId"], config["apiAuthToken"])

\* IsTerminal that keeps polling only on the one in-progress status it knows.
IsTerminalUnlessRunning(status) == status # "running"

\* The loop test of line 195, negated: the status ends the loop.
IsTerminal(status) == status \in TerminalStatuses

\* IsUnsupported that also takes expired for a failure.
IsUnsupportedOrExpired(status) ==
    status \in {"unsupported_file_format", "expired"}

\* The test of line 202.
IsUnsupported(status) == status = "unsupported_file_format"

\* IsCouldNotAlign with the status misspelt.
IsCouldNotAlignTypo(status) == status = "could_not_aligned"

\* The test of line 206.
IsCouldNotAlign(status) == status = "could_not_align"

\* WaitOf reading the wait once, from the first details fetch.
WaitOfFirstFetch(d) == trace[2].wait

\* wait_s = details['check_wait'] (line 198).
WaitOf(d) == d.check_wait

\* IdArg passing the converted string instead of the id as returned.
IdArgAsStr(id) == PyStr(id)

\* The job id passed to job_details and get_output (lines 193, 200, 216).
IdArg(id) == id

\* KindOf passing the job type through without mapping it.
KindOfUnmapped(jt) ==
    CASE jt = "transcription" -> "transcription"
      [] jt = "alignment"     -> "alignment"
      [] OTHER                -> "unbound"

\* KindOf with job_type initialised to 'transcript' before the tests.
KindOfDefaultsToTranscript(jt) ==
    CASE jt = "alignment" -> "alignment"
      [] OTHER            -> "transcript"

\* Lines 212-215: job_type is bound only for the two known job types.
KindOf(jt) ==
    CASE jt = "transcription" -> "transcript"
      [] jt = "alignment"     -> "alignment"
      [] OTHER                -> "unbound"

NoFetch == [job_id |-> None, frmat |-> None, job_type |-> "unbound",
            request |-> NoRequest]

Init ==
    /\ pc = "NotStarted"
    /\ config = NoConfig
    /\ job_id = None
    /\ details = NoDetails
    /\ job_type = "unbound"
    /\ output = <<>>
    /\ result = <<>>
    /\ error = NoError
    /\ handles = {}
    /\ posted = NoRequest
    /\ fetched = NoFetch
    /\ trace = <<>>
    /\ source = NoFile
    /\ served = 0

\* Line 184: config = SpeechmaticsConfig.from_json(CONFIG_FILE).
LoadConfig ==
    /\ pc = "NotStarted"
    /\ \E file \in ConfigFiles :
         LET r == from_json(file) IN
         /\ source' = file
         /\ IF r.ok
              THEN config' = r.cfg /\ pc' = "config_loaded" /\ error' = error
              ELSE config' = config /\ pc' = "failed" /\ error' = r.err
    /\ UNCHANGED <<job_id, details, job_type, output, result, handles, posted,
                   fetched, trace, served>>

\* Line 190: job_id = client.job_post(...).  The file objects job_post opened
\* are released only by the runtime's finaliser: on a normal return the
\* runtime may or may not have collected them yet; on an exception the
\* traceback keeps the frame, and with it the files, alive.
JobPost ==
    /\ pc = "config_loaded"
    /\ \E env \in PostEnvs, collected \in BOOLEAN :
         LET r == job_post(Client, full_path, config["language"], config["text"],
                           config["callback_url"], config["notification"],
                           config["notification_email"], env)
         IN
         /\ trace' = Append(trace,
                [NoEvent EXCEPT !.op = "job_post", !.job_id = r.value,
                                !.sent = r.sent, !.err = r.err,
                                !.code = IF r.sent THEN env.code ELSE 0,
                                !.body = IF r.sent /\ env.code = HTTP_OK
                                           THEN env.body ELSE "",
                                !.opens = r.opens])
         /\ posted' = r.request
         /\ handles' = IF r.ok /\ collected THEN {} ELSE r.opened
         /\ IF r.ok
              THEN job_id' = r.value /\ pc' = "submitted" /\ error' = error
              ELSE job_id' = job_id /\ pc' = "failed" /\ error' = r.err
    /\ UNCHANGED <<config, details, job_type, output, result, fetched, source,
                   served>>

\* FetchDetails that fetches again when the fetch fails.
FetchDetailsRetry ==
    \E env \in DetailsEnvs :
      LET r == job_details(Client, IdArg(job_id), env) IN
      /\ trace' = Append(trace,
             [NoEvent EXCEPT !.op = "job_details", !.job_id = IdArg(job_id),
                             !.path = r.url.job, !.sent = TRUE, !.code = env.code,
                             !.status = r.value.job_status,
                             !.wait = r.value.check_wait,
                             !.body = IF env.code = HTTP_OK THEN env.body ELSE "",
                             !.err = r.err])
      /\ IF r.ok
           THEN /\ details' = r.value
                /\ pc' = "polling"
                /\ error' = error
                /\ served' = IF r.value.job_status \in TerminalStatuses
                               THEN served ELSE served + 1
           ELSE /\ details' = details
                /\ pc' = pc
                /\ error' = error
                /\ served' = served

\* details = client.job_details(job_id) (lines 193 and 200).
FetchDetails ==
    \E env \in DetailsEnvs :
      LET r == job_details(Client, IdArg(job_id), env) IN
      /\ trace' = Append(trace,
             [NoEvent EXCEPT !.op = "job_details", !.job_id = IdArg(job_id),
                             !.path = r.url.job, !.sent = TRUE, !.code = env.code,
                             !.status = r.value.job_status,
                             !.wait = r.value.check_wait,
                             !.body = IF env.code = HTTP_OK THEN env.body ELSE "",
                             !.err = r.err])
      /\ IF r.ok
           THEN /\ details' = r.value
                /\ pc' = "polling"
                /\ error' = error
                /\ served' = IF r.value.job_status \in TerminalStatuses
                               THEN served ELSE served + 1
           ELSE /\ details' = details
                /\ pc' = "failed"
                /\ error' = r.err
                /\ served' = served

\* Line 193: the first details fetch.
FirstDetails ==
    /\ pc = "submitted"
    /\ FetchDetails
    /\ UNCHANGED <<config, job_id, job_type, output, result, handles, posted,
                   fetched, source>>

\* Sleep whose loop never fetches the details again: the status it tests
\* never changes and the run stays at the loop test.
SleepWithoutRefetch ==
    /\ pc = "polling"
    /\ ~IsTerminal(details.job_status)
    /\ UNCHANGED vars

\* Lines 195-199: the loop test passes; sleep for the wait of the details.
Sleep ==
    /\ pc = "polling"
    /\ ~IsTerminal(details.job_status)
    /\ trace' = Append(trace, [NoEvent EXCEPT !.op = "sleep",
                                              !.secs = WaitOf(details)])
    /\ pc' = "slept"
    /\ UNCHANGED <<config, job_id, details, job_type, output, result, error,
                   handles, posted, fetched, source, served>>

\* Line 200: the details fetch that follows a sleep.
Refetch ==
    /\ pc = "slept"
    /\ FetchDetails
    /\ UNCHANGED <<config, job_id, job_type, output, result, handles, posted,
                   fetched, source>>

\* Lines 202-204.
RaiseUnsupported ==
    /\ pc = "polling"
    /\ IsTerminal(details.job_status)
    /\ IsUnsupported(details.job_status)
    /\ error' = Exc("SpeechmaticsError", "File was in an unsupported file format", 0, "")
    /\ pc' = "failed"
    /\ UNCHANGED <<config, job_id, details, job_type, output, result, handles,
                   posted, fetched, trace, source, served>>

\* Lines 206-208.
RaiseCouldNotAlign ==
    /\ pc = "polling"
    /\ IsTerminal(details.job_status)
    /\ ~IsUnsupported(details.job_status)
    /\ IsCouldNotAlign(details.job_status)
    /\ error' = Exc("SpeechmaticsError", "Could not align text and audio file", 0, "")
    /\ pc' = "failed"
    /\ UNCHANGED <<config, job_id, details, job_type, output, result, handles,
                   posted, fetched, trace, source, served>>

\* Line 210: neither raise fired; "Processing complete, getting output".
Complete ==
    /\ pc = "polling"
    /\ IsTerminal(details.job_status)
    /\ ~IsUnsupported(details.job_status)
    /\ ~IsCouldNotAlign(details.job_status)
    /\ pc' = "complete"
    /\ UNCHANGED <<config, job_id, details, job_type, output, result, error,
                   handles, posted, fetched, trace, source, served>>

\* GetOutput that asks for the output again when get_output fails.
GetOutputRetry ==
    /\ pc = "complete"
    /\ KindOf(details.job_type) # "unbound"
    /\ \E env \in OutputEnvs :
         LET kind == KindOf(details.job_type)
             r == get_output(Client, IdArg(job_id), config["format"], kind, env)
         IN
         /\ job_type' = kind
         /\ trace' = Append(trace,
                [NoEvent EXCEPT !.op = "get_output", !.job_id = IdArg(job_id),
                                !.path = r.request.url.job, !.sent = TRUE,
                                !.code = env.code, !.text = r.value,
                                !.err = r.err])
         /\ fetched' = [job_id |-> IdArg(job_id), frmat |-> config["format"],
                        job_type |-> kind, request |-> r.request]
         /\ IF r.ok
              THEN output' = r.value /\ pc' = "got_output" /\ error' = error
              ELSE output' = output /\ pc' = "complete" /\ error' = error
    /\ UNCHANGED <<config, job_id, details, result, handles, posted, source, served>>

\* Lines 212-216 with a job type that binds job_type: get_output is called.
GetOutput ==
    /\ pc = "complete"
    /\ KindOf(details.job_type) # "unbound"
    /\ \E env \in OutputEnvs :
         LET kind == KindOf(details.job_type)
             r == get_output(Client, IdArg(job_id), config["format"], kind, env)
         IN
         /\ job_type' = kind
         /\ trace' = Append(trace,
                [NoEvent EXCEPT !.op = "get_output", !.job_id = IdArg(job_id),
                                !.path = r.request.url.job, !.sent = TRUE,
                                !.code = env.code, !.text = r.value,
                                !.err = r.err])
         /\ fetched' = [job_id |-> IdArg(job_id), frmat |-> config["format"],
                        job_type |-> kind, request |-> r.request]
         /\ IF r.ok
              THEN output' = r.value /\ pc' = "got_output" /\ error' = error
              ELSE output' = output /\ pc' = "failed" /\ error' = r.err
    /\ UNCHANGED <<config, job_id, details, result, handles, posted, source, served>>

\* Lines 212-216 with any other job type: job_type was never bound, and
\* evaluating the arguments of line 216 raises UnboundLocalError.
UnboundJobType ==
    /\ pc = "complete"
    /\ KindOf(details.job_type) = "unbound"
    /\ error' = Exc("UnboundLocalError", "job_type", 0, "")
    /\ pc' = "failed"
    /\ UNCHANGED <<config, job_id, details, job_type, output, result, handles,
                   posted, fetched, trace, source, served>>

\* Line 220: return output.encode('utf-8').
Return ==
    /\ pc = "got_output"
    /\ result' = EncodeUtf8(output)
    /\ pc' = "returned"
    /\ UNCHANGED <<config, job_id, details, job_type, output, error, handles,
                   posted, fetched, trace, source, served>>

Next ==
    \/ LoadConfig
    \/ JobPost
    \/ FirstDetails
    \/ Sleep
    \/ Refetch
    \/ RaiseUnsupported
    \/ RaiseCouldNotAlign
    \/ Complete
    \/ GetOutput
    \/ UnboundJobType
    \/ Return

Spec == Init /\ [][Next]_vars

----------------------------------------------------------------------------
(* The client methods on their own: job_post from every configuration of   *)
(* the optional fields, and get_output called directly.                    *)

LangNoModel == Str(<<"=", "x">>)
LangNoVersion == Str(<<"x", "=">>)

\* Configuration objects that load, over the fields job_post reads.
ClientContents ==
    [userId : {U1}, apiAuthToken : {T1},
     language : {DefaultOf("language"), LangVersion, LangTwoEq, LangNoModel,
                 LangNoVersion},
     text : {None, Empty, TextRef},
     callback_url : {None, Url},
     notification : {None, Empty, Callback, Email},
     notification_email : {None, Empty, Addr}]

\* The frmat and job_type arguments get_output is called with.
Formats == {None, Empty, DefaultOf("format"), FormatJson}

Kinds == {"transcript", "alignment", "other_kind"}

\* A client built from a loaded configuration (lines 184-188), nothing called
\* yet.
InitClient ==
    /\ pc = "config_loaded"
    /\ \E c \in ClientContents :
         /\ source = [state |-> "ok", content |-> c]
         /\ config = from_json(source).cfg
    /\ job_id = None
    /\ details = NoDetails
    /\ job_type = "unbound"
    /\ output = <<>>
    /\ result = <<>>
    /\ error = NoError
    /\ handles = {}
    /\ posted = NoRequest
    /\ fetched = NoFetch
    /\ trace = <<>>
    /\ served = 0

\* client.get_output(job_id, frmat, job_type) called with any arguments
\* (lines 151-171).
CallGetOutput ==
    /\ pc = "config_loaded"
    /\ \E id \in JobIds, frmat \in Formats, kind \in Kinds, env \in OutputEnvs :
         LET r == get_output(Client, id, frmat, kind, env) IN
         /\ trace' = Append(trace,
                [NoEvent EXCEPT !.op = "get_output", !.job_id = id,
                                !.path = r.request.url.job, !.sent = TRUE,
                                !.code = env.code, !.text = r.value,
                                !.err = r.err])
         /\ fetched' = [job_id |-> id, frmat |-> frmat, job_type |-> kind,
                        request |-> r.request]
         /\ IF r.ok
              THEN output' = r.value /\ pc' = "got_output" /\ error' = error
              ELSE output' = output /\ pc' = "failed" /\ error' = r.err
    /\ UNCHANGED <<config, job_id, details, job_type, result, handles, posted,
                   source, served>>

NextClient ==
    \/ JobPost
    \/ CallGetOutput

ClientSpec == InitClient /\ [][NextClient]_vars

\* The run under the scheduling the code has: a single thread that executes
\* its next statement, every blocking call (requests.post, requests.get,
\* time.sleep) returning.
LiveSpec == Init /\ [][Next]_vars /\ WF_vars(Next)

----------------------------------------------------------------------------
(* Properties.                                                             *)

Idx == 1..Len(trace)

\* The terminal statuses as the specification lists them.
SpecTerminal == {"done", "expired", "unsupported_file_format", "could_not_align"}

\* Entry i of trace is a details fetch that returned a record.
GotDetails(i) == trace[i].op = "job_details" /\ trace[i].err.type = "none"

Sleeps == {i \in Idx : trace[i].op = "sleep"}

Fetches == {i \in Idx : GotDetails(i)}

Outputs == {i \in Idx : trace[i].op = "get_output"}

Posts == {i \in Idx : trace[i].op = "job_post"}

DetailCalls == {i \in Idx : trace[i].op = "job_details"}

\* C1: every sleep directly follows a details fetch that returned a
\* non-terminal status and lasts the check_wait of that fetch; it is followed
\* by exactly one details fetch; a fetch with a non-terminal status is always
\* followed by a sleep, a fetch with a terminal status by no sleep and no
\* fetch; so with n fetches the last of which is terminal there are exactly
\* n-1 sleeps, and none when the first fetch is terminal.
C1_SleepsFollowLatestFetch ==
    /\ \A i \in Sleeps :
         /\ i > 1
         /\ GotDetails(i - 1)
         /\ trace[i - 1].status \notin SpecTerminal
         /\ trace[i].secs = trace[i - 1].wait
         /\ IF i < Len(trace) THEN trace[i + 1].op = "job_details" ELSE pc = "slept"
    /\ \A i \in DetailCalls :
         i < Len(trace) => trace[i + 1].op # "job_details"
    /\ \A i \in Fetches :
         IF trace[i].status \in SpecTerminal
           THEN \A j \in Idx : j > i => trace[j].op \notin {"sleep", "job_details"}
           ELSE IF i < Len(trace) THEN trace[i + 1].op = "sleep" ELSE pc = "polling"
    /\ (\E i \in Fetches : trace[i].status \in SpecTerminal)
         => Cardinality(Sleeps) = Cardinality(Fetches) - 1

\* The polling example of the specification: waits 2 then 5, then done with a
\* transcription job, and get_output is called with kind transcript.
C1_Witness ==
    /\ Len(trace) = 7
    /\ trace[2].wait = 2 /\ trace[3].op = "sleep" /\ trace[3].secs = 2
    /\ trace[4].wait = 5 /\ trace[5].op = "sleep" /\ trace[5].secs = 5
    /\ trace[6].status = "done"
    /\ trace[7].op = "get_output"
    /\ job_type = "transcript"

\* C2: once the fetched status is unsupported_file_format or could_not_align
\* the run can only raise the SpeechmaticsError of that status (it cannot
\* sleep or go on to the output), it ends failed with that error, and the
\* trace holds no get_output call.
C2_FailureStatusRaises ==
    details.job_status \in {"unsupported_file_format", "could_not_align"} =>
      /\ pc \in {"polling", "failed"}
      /\ pc = "polling" =>
           /\ ENABLED (RaiseUnsupported \/ RaiseCouldNotAlign)
           /\ ~ENABLED (Sleep \/ Complete)
      /\ pc = "failed" =>
           /\ error.type = "SpeechmaticsError"
           /\ error.text = IF details.job_status = "unsupported_file_format"
                             THEN "File was in an unsupported file format"
                             ELSE "Could not align text and audio file"
           /\ trace[Len(trace)].op = "job_details"
      /\ Outputs = {}

C2_Witness ==
    /\ pc = "failed"
    /\ details.job_status = "could_not_align"
    /\ Cardinality(Sleeps) = 2
    /\ error.text = "Could not align text and audio file"

\* C3: every job_details and get_output call is given the id job_post
\* returned, its url names that id, and the local job_id never changes after
\* the submission.
C3_SameJobId ==
    /\ \A i \in DetailCalls \cup Outputs :
         /\ trace[1].op = "job_post"
         /\ trace[1].err.type = "none"
         /\ trace[i].job_id = trace[1].job_id
         /\ trace[i].path = Str(trace[1].job_id.s)
    /\ Posts # {} /\ trace[1].err.type = "none" => job_id = trace[1].job_id
    /\ Outputs # {} => fetched.job_id = trace[1].job_id

C3_Witness ==
    /\ pc = "returned"
    /\ trace[1].job_id = PyInt(<<"7">>)
    /\ Cardinality(DetailCalls) = 3
    /\ trace[Len(trace)].job_id = PyInt(<<"7">>)

\* The code points a sequence of UTF-8 bytes stands for.
RECURSIVE DecodeUtf8(_)
DecodeUtf8(bytes) ==
    IF bytes = <<>> THEN <<>>
    ELSE LET b == bytes[1] IN
      IF b < 128 THEN <<b>> \o DecodeUtf8(SubSeq(bytes, 2, Len(bytes)))
      ELSE IF b < 224
        THEN <<(b - 192) * 64 + (bytes[2] - 128)>>
             \o DecodeUtf8(SubSeq(bytes, 3, Len(bytes)))
      ELSE IF b < 240
        THEN <<(b - 224) * 4096 + (bytes[2] - 128) * 64 + (bytes[3] - 128)>>
             \o DecodeUtf8(SubSeq(bytes, 4, Len(bytes)))
      ELSE <<(b - 240) * 262144 + (bytes[2] - 128) * 4096
             + (bytes[3] - 128) * 64 + (bytes[4] - 128)>>
           \o DecodeUtf8(SubSeq(bytes, 5, Len(bytes)))

\* C4: with the fetched status done the run leaves the loop for the success
\* path; for a transcription or alignment job it calls get_output, once, with
\* the job id, config.format and the kind mapped from the job type of the
\* last details record; the output is the text the service returned and the
\* returned bytes are the UTF-8 encoding of that text.
C4_DoneReturnsOutput ==
    details.job_status = "done" =>
      /\ pc = "polling" =>
           /\ ENABLED Complete
           /\ ~ENABLED (Sleep \/ RaiseUnsupported \/ RaiseCouldNotAlign)
      /\ (pc = "complete" /\ details.job_type \in {"transcription", "alignment"}) =>
           Outputs = {} /\ ENABLED GetOutput /\ ~ENABLED UnboundJobType
      /\ Cardinality(Outputs) <= 1
      /\ \A i \in Outputs :
           /\ details.job_type \in {"transcription", "alignment"}
           /\ trace[i].job_id = job_id
           /\ fetched.job_id = job_id
           /\ fetched.frmat = config["format"]
           /\ fetched.job_type = IF details.job_type = "transcription"
                                   THEN "transcript" ELSE "alignment"
           /\ fetched.request.url.leaf = fetched.job_type
      /\ pc = "got_output" =>
           output = trace[Len(trace)].text /\ ENABLED Return
      /\ pc = "returned" =>
           /\ trace[Len(trace)].op = "get_output"
           /\ \A k \in 1..Len(result) : result[k] \in 0..255
           /\ DecodeUtf8(result) = trace[Len(trace)].text

C4_Witness ==
    /\ pc = "returned"
    /\ details.job_status = "done"
    /\ details.job_type = "alignment"
    /\ fetched.job_type = "alignment"
    /\ trace[Len(trace)].text = <<97, 233, 8364, 128512>>
    /\ result = <<97, 195, 169, 226, 130, 172, 240, 159, 152, 128>>

\* C5: a client call that raised is the last entry of the trace: the run is
\* failed, the exception that left it is the one the call raised, and nothing
\* was called after it.  A non-200 answer raises SpeechmaticsError with that
\* code; a file that does not open raises IOError before any request.
C5_FailuresPropagate ==
    \A i \in Idx :
      /\ trace[i].err.type # "none" =>
           i = Len(trace) /\ pc = "failed" /\ error = trace[i].err
      /\ (trace[i].sent /\ trace[i].code # 200) =>
           /\ i = Len(trace) /\ pc = "failed"
           /\ error.type = "SpeechmaticsError" /\ error.code = trace[i].code
      /\ (trace[i].op = "job_post" /\ ~trace[i].sent) =>
           i = Len(trace) /\ pc = "failed" /\ error.type = "IOError"

C5_Witness ==
    /\ pc = "failed"
    /\ Len(trace) = 4
    /\ trace[3].op = "sleep"
    /\ trace[4].op = "job_details"
    /\ trace[4].code = 503
    /\ error.code = 503

\* C6: after job_post has returned or raised, no file object it opened is
\* still open.
C6_HandlesReleased ==
    pc \notin {"NotStarted", "config_loaded"} => handles = {}

\* The four validated fields of a configuration.
Validated == {"userId", "apiAuthToken", "language", "format"}

NonEmpty(v) == v.t = "str" /\ Len(v.s) > 0

\* The run failed while loading the configuration.
ConfigFailed == pc = "failed" /\ trace = <<>>

\* The value the constructor sees for a validated field of the loaded object.
GivenValue(p) ==
    IF p \in DOMAIN source.content THEN source.content[p]
    ELSE IF p = "language" THEN Str(<<"e", "n", "-", "U", "S">>)
    ELSE IF p = "format" THEN Str(<<"t", "x", "t">>)
    ELSE [t |-> "absent", s |-> <<>>]

\* The first validated field, in the order of the checks, that is not a
\* non-empty string.
FirstEmpty ==
    IF ~NonEmpty(GivenValue("userId")) THEN "userId"
    ELSE IF ~NonEmpty(GivenValue("apiAuthToken")) THEN "apiAuthToken"
    ELSE IF ~NonEmpty(GivenValue("language")) THEN "language"
    ELSE IF ~NonEmpty(GivenValue("format")) THEN "format"
    ELSE ""

\* C7: for a configuration object with only known fields: if a validated
\* field is null, empty or (userId, apiAuthToken) missing, construction
\* fails; when both required fields are supplied the failure is the
\* Exception naming the first empty field.  Otherwise construction succeeds
\* with the supplied values, "en-US" for an absent language and "txt" for an
\* absent format.  A constructed configuration has four non-empty fields.
C7_ConfigValidation ==
    (source.state = "ok" /\ DOMAIN source.content \subseteq
        Validated \cup {"text", "callback_url", "notification", "notification_email"}) =>
      /\ FirstEmpty # "" =>
           /\ ConfigFailed
           /\ IF {"userId", "apiAuthToken"} \subseteq DOMAIN source.content
                THEN /\ error.type = "Exception"
                     /\ error.text =
                          CASE FirstEmpty = "userId" -> "required userId is empty"
                            [] FirstEmpty = "apiAuthToken" -> "required apiAuthToken is empty"
                            [] FirstEmpty = "language" -> "required language is empty"
                            [] OTHER -> "required format is empty"
                ELSE error.type = "TypeError"
      /\ FirstEmpty = "" =>
           /\ ~ConfigFailed
           /\ \A p \in Validated : config[p] = GivenValue(p)
      /\ ~ConfigFailed => \A p \in Validated : NonEmpty(config[p])

C7_Witness ==
    /\ pc = "config_loaded"
    /\ DOMAIN source.content = {"userId", "apiAuthToken"}
    /\ config["language"] = Str(<<"e", "n", "-", "U", "S">>)
    /\ config["format"] = Str(<<"t", "x", "t">>)

\* C8: with the fetched status expired the run does not take the success
\* path: it never reaches line 210 and never calls get_output.
C8_ExpiredFails ==
    details.job_status = "expired" =>
      pc \notin {"complete", "got_output", "returned"} /\ Outputs = {}

\* C9 as stated: every run that has ended called job_post exactly once.
C9_SubmitExactlyOnce ==
    pc \in {"failed", "returned"} => Cardinality(Posts) = 1

\* C9, amended: job_post is called at most once and is the first call; a run
\* whose configuration loaded and that is past line 190 called it exactly
\* once; a run whose configuration failed to load made no call; every
\* job_details comes after job_post; get_output is called at most once, after
\* at least one job_details, and nothing is called after it.
C9_Lifecycle ==
    /\ Posts \subseteq {1}
    /\ (pc \notin {"NotStarted", "config_loaded"} /\ ~ConfigFailed) => Posts = {1}
    /\ ConfigFailed => trace = <<>>
    /\ \A i \in DetailCalls : i > 1 /\ trace[1].op = "job_post"
    /\ Cardinality(Outputs) <= 1
    /\ \A i \in Outputs : i = Len(trace) /\ (\E j \in DetailCalls : j < i)

C9_Witness ==
    /\ pc = "returned"
    /\ Posts = {1}
    /\ Cardinality(DetailCalls) = 2
    /\ Outputs = {Len(trace)}

\* C10: the run is past the loop only with a fetched status of the terminal
\* set, or failed by a details fetch that raised; at the loop test every
\* other status, known or not, lets the run only sleep, and after the sleep
\* only fetch again, however many polls came before.
C10_LoopLeftOnlyOnTerminal ==
    /\ pc \in {"complete", "got_output", "returned"} =>
         details.job_status \in SpecTerminal
    /\ (pc = "failed" /\ trace # <<>> /\ trace[Len(trace)].op # "job_post") =>
         \/ trace[Len(trace)].op = "job_details" /\ trace[Len(trace)].err.type # "none"
         \/ details.job_status \in SpecTerminal
    /\ (pc = "polling" /\ details.job_status \notin SpecTerminal) =>
         /\ ENABLED Sleep
         /\ ~ENABLED (Complete \/ RaiseUnsupported \/ RaiseCouldNotAlign)
    /\ pc = "slept" =>
         /\ details.job_status \notin SpecTerminal
         /\ ENABLED Refetch
         /\ ~ENABLED (Sleep \/ Complete \/ RaiseUnsupported \/ RaiseCouldNotAlign)

C10_Witness ==
    /\ pc = "slept"
    /\ details.job_status = "unknown_status"
    /\ Cardinality(Sleeps) = 2

\* C11: once the configuration is loaded the run ends: it returns the output
\* or fails; it does not stay at the submission, in the polling loop or at
\* the output fetch forever.
C11_RunEnds ==
    (pc = "config_loaded") ~> (pc \in {"returned", "failed"})

C11_Witness ==
    /\ pc = "returned"
    /\ Cardinality(Sleeps) = 2
    /\ details.job_status \in SpecTerminal

\* The entries of trace that sent an HTTP request.
Requests == {i \in Idx : trace[i].sent}

PostSent == trace # <<>> /\ trace[1].op = "job_post" /\ trace[1].sent

\* C13: the model field of the POST never holds "="; when the language holds
\* "=", model, "=" and version put together give back the language (so the
\* split is at the first "=" and later ones stay in version); when it holds
\* none, model is the language and there is no version field.
C13_ModelVersionSplit ==
    PostSent =>
      LET L == config["language"].s
          d == posted.data
      IN /\ d["model"].t = "str"
         /\ \A k \in 1..Len(d["model"].s) : d["model"].s[k] # "="
         /\ IF \E k \in 1..Len(L) : L[k] = "="
              THEN /\ "version" \in DOMAIN d
                   /\ d["model"].s \o <<"=">> \o d["version"].s = L
              ELSE /\ "version" \notin DOMAIN d
                   /\ d["model"].s = L

C13_Witness ==
    /\ PostSent
    /\ config["language"] = Str(<<"a", "=", "b", "=", "c">>)
    /\ posted.data["model"] = Str(<<"a">>)
    /\ posted.data["version"] = Str(<<"b", "=", "c">>)

\* C14: the POST holds a callback field exactly when notification is
\* "callback", and the field is the callback_url given; it holds the
\* notification e-mail field exactly when a non-empty notification_email is
\* given, whatever notification is, and the field is that address.
C14_NotificationFields ==
    PostSent =>
      LET d == posted.data IN
      /\ ("callback" \in DOMAIN d) <=>
           (config["notification"] = Str(<<"c", "a", "l", "l", "b", "a", "c", "k">>))
      /\ "callback" \in DOMAIN d => d["callback"] = config["callback_url"]
      /\ ("notification_email_address" \in DOMAIN d) <=>
           NonEmpty(config["notification_email"])
      /\ "notification_email_address" \in DOMAIN d =>
           d["notification_email_address"] = config["notification_email"]

C14_Witness ==
    /\ PostSent
    /\ config["notification"].t = "NoneType"
    /\ config["notification_email"] = Str(<<"a", "@", "b">>)
    /\ DOMAIN posted.data = {"model", "notification_email_address"}

\* C15: job_post raises IOError exactly when an open() fails: the audio file,
\* or the text file when a text is given (it is opened only then, after the
\* audio file); in that case no request was sent and no job id was returned.
C15_UnreadableFileFailsBeforeRequest ==
    (trace # <<>> /\ trace[1].op = "job_post") =>
      LET o == trace[1].opens
          failed == \E k \in 1..Len(o) : o[k] = "failed"
      IN /\ Len(o) = IF o[1] = "opened" /\ NonEmpty(config["text"]) THEN 2 ELSE 1
         /\ failed <=> (trace[1].err.type = "IOError")
         /\ failed =>
              /\ ~trace[1].sent
              /\ DOMAIN posted = {}
              /\ job_id.t = "NoneType"
              /\ pc = "failed"
              /\ error.type = "IOError"
              /\ Len(trace) = 1

C15_Witness ==
    /\ pc = "failed"
    /\ trace[1].op = "job_post"
    /\ trace[1].opens = <<"opened", "failed">>
    /\ error.type = "IOError"

\* C16: get_output sends format=txt exactly when frmat is truthy and the kind
\* is transcript, tags=one_per_line exactly when frmat is truthy and the kind
\* is alignment, and with a falsy frmat only the auth token.
C16_FormattedOutputParams ==
    Outputs # {} =>
      LET q == fetched.request.params IN
      /\ ("format" \in DOMAIN q) <=>
           (NonEmpty(fetched.frmat) /\ fetched.job_type = "transcript")
      /\ "format" \in DOMAIN q => q["format"] = Str(<<"t", "x", "t">>)
      /\ ("tags" \in DOMAIN q) <=>
           (NonEmpty(fetched.frmat) /\ fetched.job_type = "alignment")
      /\ "tags" \in DOMAIN q =>
           q["tags"] = Str(<<"o", "n", "e", "_", "p", "e", "r", "_", "l", "i", "n", "e">>)
      /\ ~NonEmpty(fetched.frmat) => DOMAIN q = {"auth_token"}

C16_Witness ==
    /\ Outputs # {}
    /\ fetched.frmat = Str(<<>>)
    /\ fetched.job_type = "alignment"
    /\ DOMAIN fetched.request.params = {"auth_token"}

\* The kind lines 212-215 map a job type to.
MappedKind(jt) == IF jt = "transcription" THEN "transcript" ELSE "alignment"

\* C17: with the fetched status expired the run leaves the loop and goes on
\* as for done: neither SpeechmaticsError of lines 202-208 is raised, and
\* get_output is called with the kind mapped from the job type.
C17_ExpiredTakesSuccessPath ==
    details.job_status = "expired" =>
      /\ pc \in {"polling", "complete", "got_output", "returned", "failed"}
      /\ pc = "polling" =>
           /\ ENABLED Complete
           /\ ~ENABLED (Sleep \/ RaiseUnsupported \/ RaiseCouldNotAlign)
      /\ (pc = "complete" /\ details.job_type \in {"transcription", "alignment"}) =>
           ENABLED GetOutput
      /\ pc = "failed" =>
           /\ error.text \notin {"File was in an unsupported file format",
                                 "Could not align text and audio file"}
           /\ \/ error.type = "UnboundLocalError"
              \/ trace[Len(trace)].op = "get_output"
      /\ \A i \in Outputs :
           /\ details.job_type \in {"transcription", "alignment"}
           /\ fetched.job_type = MappedKind(details.job_type)

C17_Witness ==
    /\ pc = "returned"
    /\ details.job_status = "expired"
    /\ fetched.job_type = "transcript"

\* C18: get_output is only called with the kind transcript or alignment, the
\* one mapped from the job type of the last details record; with any other
\* job type the run fails with UnboundLocalError and get_output is not
\* called.
C18_OutputKindIsMapped ==
    /\ \A i \in Outputs :
         /\ fetched.job_type \in {"transcript", "alignment"}
         /\ fetched.request.url.leaf = fetched.job_type
         /\ details.job_type \in {"transcription", "alignment"}
         /\ fetched.job_type = MappedKind(details.job_type)
    /\ (details.job_status \in {"done", "expired"}
          /\ details.job_type \notin {"transcription", "alignment"}) =>
         /\ pc \in {"polling", "complete", "failed"}
         /\ Outputs = {}
         /\ pc = "complete" => ENABLED UnboundJobType /\ ~ENABLED GetOutput
         /\ pc = "failed" => error.type = "UnboundLocalError"

C18_Witness ==
    /\ pc = "failed"
    /\ details.job_status = "done"
    /\ details.job_type = "other_type"
    /\ error.type = "UnboundLocalError"
    /\ Outputs = {}

\* Loading the configuration the run read fails: the file does not open or
\* is not JSON, the object holds an unknown field, lacks userId or
\* apiAuthToken, or a validated field is null or empty.
LoadFails ==
    \/ source.state \in {"unreadable", "not_json"}
    \/ /\ source.state = "ok"
       /\ \/ ~(DOMAIN source.content \subseteq
                 Validated \cup {"text", "callback_url", "notification",
                                 "notification_email"})
          \/ FirstEmpty # ""

\* C19: when loading the configuration fails the run is failed with the
\* error of the load, no client method was called (so no file was opened and
\* no request sent).
C19_ConfigFailureMakesNoCall ==
    LoadFails =>
      /\ pc = "failed"
      /\ error.type \in {"IOError", "ValueError", "TypeError", "Exception"}
      /\ trace = <<>>
      /\ handles = {}
      /\ DOMAIN posted = {}
      /\ DOMAIN fetched.request = {}

C19_Witness ==
    /\ pc = "failed"
    /\ source.state = "ok"
    /\ "comment" \in DOMAIN source.content
    /\ error.type = "TypeError"
    /\ trace = <<>>

\* C20: every get_output call of the run has a non-empty frmat, the
\* configured format, and so asks for formatted output: format=txt for the
\* kind transcript, tags=one_per_line for alignment; the configured value
\* itself is not a parameter.
C20_OutputAlwaysFormatted ==
    \A i \in Outputs :
      LET q == fetched.request.params IN
      /\ fetched.frmat = config["format"]
      /\ NonEmpty(fetched.frmat)
      /\ fetched.job_type = "transcript" =>
           /\ DOMAIN q = {"auth_token", "format"}
           /\ q["format"] = Str(<<"t", "x", "t">>)
      /\ fetched.job_type = "alignment" =>
           /\ DOMAIN q = {"auth_token", "tags"}
           /\ q["tags"] = Str(<<"o", "n", "e", "_", "p", "e", "r", "_", "l", "i", "n", "e">>)
      /\ q["auth_token"] = config["apiAuthToken"]

C20_Witness ==
    /\ Outputs # {}
    /\ config["format"] = Str(<<"j", "s", "o", "n">>)
    /\ fetched.job_type = "transcript"
    /\ fetched.request.params["format"] = Str(<<"t", "x", "t">>)

====
